---- MODULE Spec2Model ----
(***************************************************************************)
(* Feedback dashboard of cloudflare-feedback-analyzer: the browser-side    *)
(* view (feedback, aiSummary, activeFilters, the facet menus, render) and  *)
(* the completion of the background fetch of /api/analyze.  The dropdown   *)
(* page and the button page share render, the value-item click handler and *)
(* the clear handler; the "All" button is the button page's, the dropdown  *)
(* labels are the dropdown page's.  The Worker's two handlers,             *)
(* handleDashboard and handleAnalyze, serve one request in SpecServer.     *)
(***************************************************************************)
EXTENDS Integers, Sequences, FiniteSets, TLC

VARIABLES feedback, aiSummary, aiShape, activeFilters, menu, menuCount,
          allButton,
          dropdown, filtered, cards, feedbackCount, emptyState,
          aiLoadingHidden, fetchState, viewError, lastEvent,
          request, d1, ai, prompt, response

\* lastEvent: which handler ran last ("load", "click", "analysis",
\* "analysisFailed"; "input" / "render" for a bare call of render)
\* dropdown: per facet, whether the dropdown toggle carries the class
\* "active" and which text its label shows
\* request: the path the Worker is serving; d1, ai: what the D1 query and
\* the model call of that request do; prompt: the records named in the
\* prompt; response: the Response the handler returns
\* menuCount: per facet, the count shown beside each value of menu
vars == <<feedback, aiSummary, aiShape, activeFilters, menu, menuCount,
          allButton,
          dropdown, filtered, cards, feedbackCount, emptyState,
          aiLoadingHidden, fetchState, viewError, lastEvent,
          request, d1, ai, prompt, response>>

pageVars == <<aiSummary, aiShape, activeFilters, menu, menuCount, allButton,
              dropdown,
              filtered, cards, feedbackCount, emptyState, aiLoadingHidden,
              fetchState, viewError, lastEvent>>

serverVars == <<request, d1, ai, prompt, response>>

(* ------------------------------ bounds -------------------------------- *)
MaxRecords == 2
MaxAnnotations == 2
MaxTokens == 5

(* ------------------------------ inputs -------------------------------- *)
Facets == {"source", "theme", "sentiment", "urgency"}
AiFacets == {"theme", "sentiment", "urgency"}
Sources == {"Twitter", "Email"}
\* ids the model may put on an annotation; record ids are 1..Len(feedback),
\* so id 2 is an id of no record in a batch of fewer than two records
AnnotationIds == {1, 2}
\* theme/sentiment/urgency triples an annotation may carry: the values of
\* the default annotation and one triple differing from it in every facet
Labels == { <<"Unknown", "Neutral", "Medium">>,
            <<"Billing", "Negative", "High">> }

\* the annotations a response may hold: either triple for id 1, so that
\* duplicates of an id conflict, and the non-default triple for id 2
Annotations ==
  { a \in { [id |-> i, theme |-> l[1], sentiment |-> l[2], urgency |-> l[3]] :
              i \in AnnotationIds, l \in Labels } :
      a.id = 1 \/ a.theme = "Billing" }

AnnotationLists == UNION { [1..n -> Annotations] : n \in 0..MaxAnnotations }

\* record batches: ids 1..n in row order; the source names being
\* interchangeable, the first record's source is fixed
Batches ==
  { [i \in 1..n |-> [id |-> i, source |-> s[i]]] :
      n \in 0..MaxRecords,
      s \in { t \in [1..MaxRecords -> Sources] : t[1] = "Twitter" } }

(* --------------------------- array helpers ---------------------------- *)
SetOf(seq) == { seq[i] : i \in 1..Len(seq) }

Includes(seq, v) == \E i \in 1..Len(seq) : seq[i] = v

\* Array.prototype.indexOf: first position of v, 0 standing for -1
RECURSIVE IndexOf(_, _)
IndexOf(seq, v) ==
  IF seq = <<>> THEN 0
  ELSE IF Head(seq) = v THEN 1
  ELSE LET r == IndexOf(Tail(seq), v) IN IF r = 0 THEN 0 ELSE r + 1

\* Array.prototype.splice(index, 1)
Splice(seq, i) == SubSeq(seq, 1, i - 1) \o SubSeq(seq, i + 1, Len(seq))

\* variant: every element kept, repeated or not
Uniq_KeepAll(seq) == seq

\* Array.from(new Set(seq)): distinct values in first-seen order
RECURSIVE Uniq(_)
Uniq(seq) ==
  IF seq = <<>> THEN <<>>
  ELSE LET init == Uniq(SubSeq(seq, 1, Len(seq) - 1))
           last == seq[Len(seq)]
       IN IF Includes(init, last) THEN init ELSE Append(init, last)

Project(seq, f) == [i \in 1..Len(seq) |-> seq[i][f]]

(* ------------------------------ merge --------------------------------- *)
\* variant: the fallback literal with another urgency
DefaultAnnotation_LowUrgency == [theme |-> "Unknown", sentiment |-> "Neutral", urgency |-> "Low"]

DefaultAnnotation == [theme |-> "Unknown", sentiment |-> "Neutral", urgency |-> "Medium"]

\* variant: the last annotation carrying the id instead of the first
FindIndex_Last(anns, id) ==
  IF \E j \in 1..Len(anns) : anns[j].id = id
  THEN CHOOSE j \in 1..Len(anns) :
         anns[j].id = id /\ \A k \in (j + 1)..Len(anns) : anns[k].id # id
  ELSE 0

\* position of the annotation aiSummary.find(a => a.id === id) returns,
\* 0 when it returns undefined
RECURSIVE FindIndex(_, _)
FindIndex(anns, id) ==
  IF anns = <<>> THEN 0
  ELSE IF Head(anns).id = id THEN 1
  ELSE LET r == FindIndex(Tail(anns), id) IN IF r = 0 THEN 0 ELSE r + 1

Found(anns, id) == FindIndex(anns, id) # 0

\* aiSummary.find(...) || { theme: "Unknown", sentiment: "Neutral", urgency: "Medium" }
Summary(anns, id) ==
  IF Found(anns, id)
  THEN LET a == anns[FindIndex(anns, id)]
       IN [theme |-> a.theme, sentiment |-> a.sentiment, urgency |-> a.urgency]
  ELSE DefaultAnnotation

(* ------------------------------ render -------------------------------- *)
\* variant: a selection names the values to leave out
AiFacetPass_Excluding(anns, af, f, rec) ==
  Found(anns, rec.id) /\ ~Includes(af[f], anns[FindIndex(anns, rec.id)][f])

\* one facet's filter step of render: summary && activeFilters[f].includes(summary[f])
AiFacetPass(anns, af, f, rec) ==
  Found(anns, rec.id) /\ Includes(af[f], anns[FindIndex(anns, rec.id)][f])

\* variant: the output is collected selection value by selection value
FilterAiFacet_PerValue(anns, af, f, recs) ==
  IF Len(af[f]) = 0 THEN recs
  ELSE LET passing(v) ==
             SelectSeq(recs, LAMBDA r : /\ Found(anns, r.id)
                                        /\ anns[FindIndex(anns, r.id)][f] = v)
       IN IF Len(af[f]) = 1 THEN passing(af[f][1])
          ELSE passing(af[f][1]) \o passing(af[f][2])

FilterAiFacet(anns, af, f, recs) ==
  IF Len(af[f]) > 0
  THEN SelectSeq(recs, LAMBDA r : AiFacetPass(anns, af, f, r))
  ELSE recs

\* variant: an empty source selection filters like any other selection
FilterSource_NoEmptyGuard(af, recs) ==
  SelectSeq(recs, LAMBDA r : Includes(af.source, r.source))

\* variant: the output is collected selection value by selection value
RECURSIVE FilterSource_BySelection(_, _)
FilterSource_BySelection(af, recs) ==
  IF Len(af.source) = 0 THEN recs
  ELSE SelectSeq(recs, LAMBDA r : r.source = Head(af.source))
       \o (IF Len(af.source) = 1 THEN <<>>
           ELSE FilterSource_BySelection([af EXCEPT !.source = Tail(@)], recs))

FilterSource(af, recs) ==
  IF Len(af.source) > 0
  THEN SelectSeq(recs, LAMBDA r : Includes(af.source, r.source))
  ELSE recs

\* variant: the urgency step left out
Apply_SkipUrgency(fb, anns, af) ==
  LET bySource == FilterSource(af, fb)
  IN IF Len(anns) = 0 THEN bySource
     ELSE FilterAiFacet(anns, af, "sentiment",
            FilterAiFacet(anns, af, "theme", bySource))

\* variant: records joined from the annotation side, unmatched ones dropped
Apply_MatchedOnly(fb, anns, af) ==
  LET bySource == FilterSource(af, fb)
  IN IF Len(anns) = 0 THEN bySource
     ELSE SelectSeq(FilterAiFacet(anns, af, "urgency",
                      FilterAiFacet(anns, af, "sentiment",
                        FilterAiFacet(anns, af, "theme", bySource))),
                    LAMBDA r : Found(anns, r.id))

\* variant: no isLoading guard around the theme/sentiment/urgency steps
Apply_NoLoadingGuard(fb, anns, af) ==
  FilterAiFacet(anns, af, "urgency",
    FilterAiFacet(anns, af, "sentiment",
      FilterAiFacet(anns, af, "theme", FilterSource(af, fb))))

\* the list `filtered` of render when aiSummary is an array
Apply(fb, anns, af) ==
  LET bySource == FilterSource(af, fb)
  IN IF Len(anns) = 0 THEN bySource
     ELSE FilterAiFacet(anns, af, "urgency",
            FilterAiFacet(anns, af, "sentiment",
              FilterAiFacet(anns, af, "theme", bySource)))

Card(anns, item) ==
  [id |-> item.id, source |-> item.source,
   summary |-> Summary(anns, item.id), loading |-> (Len(anns) = 0)]

HasActiveFilters(af) == \E f \in Facets : Len(af[f]) > 0

EmptyStateOf(recs, af) ==
  IF Len(recs) = 0
  THEN (IF HasActiveFilters(af) THEN "noMatch" ELSE "noFeedback")
  ELSE "none"

\* render(): the effect on the page of one call, for the value aiSummary
\* holds ("array", or what a response without a list in `analysis` leaves)
render(anns, shape, af) ==
  IF shape = "array"
  THEN LET out == Apply(feedback, anns, af)
       IN /\ filtered' = out
          /\ feedbackCount' = <<Len(out), Len(feedback)>>
          /\ cards' = [i \in 1..Len(out) |-> Card(anns, out[i])]
          /\ emptyState' = EmptyStateOf(out, af)
          /\ UNCHANGED viewError
  ELSE IF shape \in {"undefined", "null"}
  THEN \* content.innerHTML = "" and then aiSummary.length throws
       /\ cards' = <<>>
       /\ emptyState' = "none"
       /\ viewError' = TRUE
       /\ UNCHANGED <<filtered, feedbackCount>>
  ELSE \* a non-array value: .length is undefined, .find is not a function
       LET bySource == FilterSource(af, feedback)
           aiActive == \E f \in AiFacets : Len(af[f]) > 0
       IN IF Len(bySource) > 0 /\ aiActive
          THEN /\ cards' = <<>>
               /\ emptyState' = "none"
               /\ viewError' = TRUE
               /\ UNCHANGED <<filtered, feedbackCount>>
          ELSE /\ filtered' = bySource
               /\ feedbackCount' = <<Len(bySource), Len(feedback)>>
               /\ cards' = <<>>
               /\ emptyState' = EmptyStateOf(bySource, af)
               /\ viewError' = (viewError \/ Len(bySource) > 0)

(* ------------------------------ events -------------------------------- *)
NoFilters == [f \in Facets |-> <<>>]

SourceKeys(fb) == Uniq(Project(fb, "source"))

\* variant: the comparison of the two lengths made before the test for an
\* empty selection
DropdownOf_EqualFirst(sel, allValues) ==
  IF Len(sel) = Len(allValues) THEN [active |-> TRUE, label |-> "all"]
  ELSE IF Len(sel) = 0 THEN [active |-> FALSE, label |-> "all"]
  ELSE [active |-> TRUE, label |-> "count"]

\* one facet's branch of updateDropdownLabels: label "All ..." without the
\* class, "All ..." with it, or "<n> selected" with it
DropdownOf(sel, allValues) ==
  IF Len(sel) = 0 THEN [active |-> FALSE, label |-> "all"]
  ELSE IF Len(sel) = Len(allValues) THEN [active |-> TRUE, label |-> "all"]
  ELSE [active |-> TRUE, label |-> "count"]

\* updateDropdownLabels(): the source dropdown always, the other three only
\* while aiSummary.length > 0 (with aiSummary undefined or null the read of
\* .length throws after the source dropdown has been set)
updateDropdownLabels(old, fb, anns, shape, af) ==
  [f \in Facets |->
     IF f = "source" THEN DropdownOf(af.source, SourceKeys(fb))
     ELSE IF shape = "array" /\ Len(anns) > 0
          THEN DropdownOf(af[f], Uniq(Project(anns, f)))
          ELSE old[f]]

\* variant: the value is pushed whether or not it is already selected
ToggleSel_PushOnly(sel, v) == Append(sel, v)

\* the click handler of a value button / menu item
ToggleSel(sel, v) ==
  LET index == IndexOf(sel, v)
  IN IF index = 0 THEN Append(sel, v) ELSE Splice(sel, index)

\* variant: a click on a value starts from an empty selection state
Toggle_ResetsOthers(f, v) ==
  /\ Includes(menu[f], v)
  /\ activeFilters' = [NoFilters EXCEPT ![f] = ToggleSel(activeFilters[f], v)]
  /\ dropdown' = updateDropdownLabels(dropdown, feedback, aiSummary, aiShape,
                                       activeFilters')
  /\ render(aiSummary, aiShape, activeFilters')
  /\ lastEvent' = "click"
  /\ UNCHANGED serverVars
  /\ UNCHANGED <<feedback, aiSummary, aiShape, menu, menuCount, allButton,
                 aiLoadingHidden, fetchState>>

Toggle(f, v) ==
  /\ Includes(menu[f], v)
  /\ activeFilters' = [activeFilters EXCEPT ![f] = ToggleSel(@, v)]
  /\ dropdown' = updateDropdownLabels(dropdown, feedback, aiSummary, aiShape,
                                       activeFilters')
  /\ render(aiSummary, aiShape, activeFilters')
  /\ lastEvent' = "click"
  /\ UNCHANGED serverVars
  /\ UNCHANGED <<feedback, aiSummary, aiShape, menu, menuCount, allButton,
                 aiLoadingHidden, fetchState>>

\* variant: the two branches of the all-selected gate exchanged
SelectAllSel_InvertedGate(sel, allValues) ==
  LET allSelected == Len(allValues) > 0
                     /\ \A i \in 1..Len(allValues) : Includes(sel, allValues[i])
  IN IF allSelected THEN allValues ELSE <<>>

\* variant: a plain "select all" without the all-selected gate
SelectAllSel_NoGate(sel, allValues) == allValues

\* the click handler of an "All" button built over allValues
SelectAllSel(sel, allValues) ==
  LET allSelected == Len(allValues) > 0
                     /\ \A i \in 1..Len(allValues) : Includes(sel, allValues[i])
  IN IF allSelected THEN <<>> ELSE allValues

SelectAll(f) ==
  /\ allButton[f]
  /\ activeFilters' = [activeFilters EXCEPT ![f] = SelectAllSel(@, menu[f])]
  /\ dropdown' = updateDropdownLabels(dropdown, feedback, aiSummary, aiShape,
                                       activeFilters')
  /\ render(aiSummary, aiShape, activeFilters')
  /\ lastEvent' = "click"
  /\ UNCHANGED serverVars
  /\ UNCHANGED <<feedback, aiSummary, aiShape, menu, menuCount, allButton,
                 aiLoadingHidden, fetchState>>

ClearAll ==
  /\ activeFilters' = NoFilters
  /\ dropdown' = updateDropdownLabels(dropdown, feedback, aiSummary, aiShape,
                                       activeFilters')
  /\ render(aiSummary, aiShape, activeFilters')
  /\ lastEvent' = "click"
  /\ UNCHANGED serverVars
  /\ UNCHANGED <<feedback, aiSummary, aiShape, menu, menuCount, allButton,
                 aiLoadingHidden, fetchState>>

(* ------------------------- /api/analyze fetch ------------------------- *)
\* variant: the annotation facets offer the values the prompt names,
\* whatever the annotation list holds
InitializedMenus_Static(fb, anns) ==
  [f \in Facets |->
     IF f = "source" THEN Uniq(Project(fb, "source"))
     ELSE IF f = "theme" THEN <<"Unknown", "Billing">>
     ELSE IF f = "sentiment" THEN <<"Neutral", "Negative">>
     ELSE <<"Medium", "High">>]

\* the number of elements of seq whose field is v
CountIn(seq, field, v) == Cardinality({ i \in 1..Len(seq) : seq[i][field] = v })

\* initializeFilters(): every menu rebuilt from counts and aiSummary
InitializedMenus(fb, anns) ==
  [f \in Facets |-> IF f = "source" THEN SourceKeys(fb) ELSE Uniq(Project(anns, f))]

\* the counts initializeFilters() puts beside the values: counts[source],
\* which handleDashboard reduced from the records, and for the other facets
\* aiSummary.filter(a => a[f] === value).length
InitializedCounts(fb, anns) ==
  [f \in Facets |->
     LET values == InitializedMenus(fb, anns)[f]
     IN [i \in 1..Len(values) |->
           IF f = "source" THEN CountIn(fb, "source", values[i])
           ELSE CountIn(anns, f, values[i])]]

\* variant: the answer of a fetch that is issued again after it has settled
AnalysisArrives_Repeated(anns) ==
  /\ fetchState' = "resolved"
  /\ aiSummary' = anns
  /\ aiShape' = "array"
  /\ aiLoadingHidden' = TRUE
  /\ menu' = InitializedMenus(feedback, anns)
  /\ menuCount' = InitializedCounts(feedback, anns)
  /\ allButton' = [f \in Facets |-> TRUE]
  /\ dropdown' = updateDropdownLabels(dropdown, feedback, anns, "array",
                                       activeFilters)
  /\ render(anns, "array", activeFilters)
  /\ lastEvent' = "analysis"
  /\ UNCHANGED serverVars
  /\ UNCHANGED <<feedback, activeFilters>>

\* variant: the rebuild of the menus starts from an empty selection state
AnalysisArrives_ResetsFilters(anns) ==
  /\ fetchState = "pending"
  /\ fetchState' = "resolved"
  /\ aiSummary' = anns
  /\ aiShape' = "array"
  /\ aiLoadingHidden' = TRUE
  /\ menu' = InitializedMenus(feedback, anns)
  /\ menuCount' = InitializedCounts(feedback, anns)
  /\ allButton' = [f \in Facets |-> TRUE]
  /\ activeFilters' = NoFilters
  /\ dropdown' = updateDropdownLabels(dropdown, feedback, anns, "array", NoFilters)
  /\ render(anns, "array", NoFilters)
  /\ lastEvent' = "analysis"
  /\ UNCHANGED serverVars
  /\ UNCHANGED feedback

\* .then(data => ...) with data.analysis an array
AnalysisArrives(anns) ==
  /\ fetchState = "pending"
  /\ fetchState' = "resolved"
  /\ aiSummary' = anns
  /\ aiShape' = "array"
  /\ aiLoadingHidden' = TRUE
  /\ menu' = InitializedMenus(feedback, anns)
  /\ menuCount' = InitializedCounts(feedback, anns)
  /\ allButton' = [f \in Facets |-> TRUE]
  /\ dropdown' = updateDropdownLabels(dropdown, feedback, anns, "array",
                                       activeFilters)
  /\ render(anns, "array", activeFilters)
  /\ lastEvent' = "analysis"
  /\ UNCHANGED serverVars
  /\ UNCHANGED <<feedback, activeFilters>>

\* what data.analysis is when it is not an array: absent (the body of the
\* 500 answer, {error, details}), null, or an object
MalformedShapes == {"undefined", "null", "object"}

\* .then(data => ...) with data.analysis not an array: initializeFilters
\* throws at aiSummary.map after rebuilding the source menu and emptying
\* the theme menu, and .catch hides the loading indicator
AnalysisMalformed(shape) ==
  /\ fetchState = "pending"
  /\ fetchState' = "rejected"
  /\ aiSummary' = <<>>
  /\ aiShape' = shape
  /\ aiLoadingHidden' = TRUE
  /\ menu' = [menu EXCEPT !["source"] = SourceKeys(feedback), !["theme"] = <<>>]
  /\ menuCount' = [menuCount EXCEPT
                     !["source"] = InitializedCounts(feedback, <<>>).source,
                     !["theme"] = <<>>]
  /\ allButton' = [allButton EXCEPT !["source"] = TRUE]
  /\ lastEvent' = "analysisFailed"
  /\ UNCHANGED serverVars
  /\ UNCHANGED <<feedback, activeFilters, dropdown, filtered, cards,
                 feedbackCount, emptyState, viewError>>

\* variant: .catch builds the controls as .then does
AnalysisFails_Rebuilds ==
  /\ fetchState = "pending"
  /\ fetchState' = "rejected"
  /\ aiLoadingHidden' = TRUE
  /\ menu' = InitializedMenus(feedback, aiSummary)
  /\ menuCount' = InitializedCounts(feedback, aiSummary)
  /\ allButton' = [f \in Facets |-> TRUE]
  /\ lastEvent' = "analysisFailed"
  /\ UNCHANGED serverVars
  /\ UNCHANGED <<feedback, aiSummary, aiShape, activeFilters, dropdown,
                 filtered, cards, feedbackCount, emptyState, viewError>>

\* variant: .catch only logs the error
AnalysisFails_KeepsLoading ==
  /\ fetchState = "pending"
  /\ fetchState' = "rejected"
  /\ lastEvent' = "analysisFailed"
  /\ UNCHANGED serverVars
  /\ UNCHANGED <<feedback, aiSummary, aiShape, activeFilters, menu, menuCount,
                 allButton, dropdown, filtered, cards, feedbackCount,
                 emptyState, viewError, aiLoadingHidden>>

\* the fetch or res.json() rejects: .catch only
AnalysisFails ==
  /\ fetchState = "pending"
  /\ fetchState' = "rejected"
  /\ aiLoadingHidden' = TRUE
  /\ lastEvent' = "analysisFailed"
  /\ UNCHANGED serverVars
  /\ UNCHANGED <<feedback, aiSummary, aiShape, activeFilters, menu, menuCount,
                 allButton,
                 dropdown, filtered, cards, feedbackCount, emptyState,
                 viewError>>

(* ------------------------------ the Worker ---------------------------- *)
\* feedback.slice(0, 20): the records named in the prompt
PromptCap == 20

\* the record lists the D1 query may return: none, MaxRecords, and one more
\* than the prompt takes
ServerBatches ==
  { [i \in 1..n |-> [id |-> i, source |-> "Twitter"]] :
      n \in {0, MaxRecords, PromptCap + 1} }

\* what env.D1_FEEDBACK...all() does: it throws, or resolves to an object
\* whose `results` may be absent
D1Outcomes ==
  { [ok |-> FALSE, defined |-> FALSE, results |-> <<>>],
    [ok |-> TRUE, defined |-> FALSE, results |-> <<>>] }
  \cup { [ok |-> TRUE, defined |-> TRUE, results |-> b] : b \in ServerBatches }

NoD1 == [ok |-> TRUE, defined |-> FALSE, results |-> <<>>]

\* the model's text, token by token: brackets, a word that is not JSON, the
\* literal null, and two JSON objects with the fields of an annotation
Tokens == {"[", "]", "w", "null", "a1", "aAngry"}
ObjectTokens == {"obj", "a1", "aAngry"}

RECURSIVE TextsOfLength(_)
TextsOfLength(n) ==
  IF n = 0 THEN {<<>>}
  ELSE { Append(t, k) : t \in TextsOfLength(n - 1), k \in Tokens }

RawTexts == UNION { TextsOfLength(n) : n \in 0..MaxTokens }

\* what an element of a parsed array is to the code that reads its fields
ItemOf(token) ==
  IF token = "a1"
  THEN [kind |-> "object", id |-> 1, theme |-> "Billing",
        sentiment |-> "Negative", urgency |-> "High"]
  ELSE IF token = "aAngry"
  THEN [kind |-> "object", id |-> 2, theme |-> "Billing",
        sentiment |-> "Angry", urgency |-> "Critical"]
  ELSE IF token = "obj"
  THEN [kind |-> "object", id |-> 0, theme |-> "undefined",
        sentiment |-> "undefined", urgency |-> "undefined"]
  ELSE IF token = "null"
  THEN [kind |-> "null", id |-> 0, theme |-> "undefined",
        sentiment |-> "undefined", urgency |-> "undefined"]
  ELSE [kind |-> "array", id |-> 0, theme |-> "undefined",
        sentiment |-> "undefined", urgency |-> "undefined"]

\* what env.AI.run does: it throws, or resolves to a string, or to an object
\* with `response` and `output_text`
AiMessages == {"timeout", "quota"}
FieldTexts == { <<>>, <<"[", "a1", "]">>, <<"w">> }
AiOutcomes ==
  { [kind |-> "throws", message |-> m, text |-> <<>>, response |-> <<>>,
     output_text |-> <<>>] : m \in AiMessages }
  \cup { [kind |-> "string", message |-> "", text |-> t, response |-> <<>>,
          output_text |-> <<>>] : t \in RawTexts }
  \cup { [kind |-> "object", message |-> "", text |-> <<>>, response |-> r,
          output_text |-> o] : r \in FieldTexts, o \in FieldTexts }

NoAi == [kind |-> "string", message |-> "", text |-> <<>>, response |-> <<>>,
         output_text |-> <<>>]

\* typeof aiResponse === 'string' ? aiResponse
\*   : (aiResponse.response || aiResponse.output_text || JSON.stringify(aiResponse))
AiRawOf(a) ==
  IF a.kind = "string" THEN a.text
  ELSE IF Len(a.response) > 0 THEN a.response
  ELSE IF Len(a.output_text) > 0 THEN a.output_text
  ELSE <<"obj">>

\* JSON.parse, on tokens: a value is null, an object, or an array of values.
\* ValueEnd is the position after the value that starts at i, 0 if there is
\* none; ArrayEnd the same for the rest of an array whose next element or
\* closing bracket is at i.
RECURSIVE ValueEnd(_, _), ArrayEnd(_, _)
ValueEnd(t, i) ==
  IF i > Len(t) THEN 0
  ELSE IF t[i] \in ObjectTokens \cup {"null"} THEN i + 1
  ELSE IF t[i] = "[" THEN ArrayEnd(t, i + 1)
  ELSE 0

ArrayEnd(t, i) ==
  IF i > Len(t) THEN 0
  ELSE IF t[i] = "]" THEN i + 1
  ELSE LET e == ValueEnd(t, i)
       IN IF e = 0 THEN 0 ELSE ArrayEnd(t, e)

\* the elements of the array whose next element or closing bracket is at i
RECURSIVE ArrayItems(_, _)
ArrayItems(t, i) ==
  IF t[i] = "]" THEN <<>>
  ELSE <<ItemOf(t[i])>> \o ArrayItems(t, ValueEnd(t, i))

\* JSON.parse(t): whether it throws, and the value otherwise
JsonParse(t) ==
  IF ValueEnd(t, 1) # Len(t) + 1
  THEN [throws |-> TRUE, shape |-> "none", items |-> <<>>]
  ELSE IF t[1] = "[" THEN [throws |-> FALSE, shape |-> "array", items |-> ArrayItems(t, 2)]
  ELSE IF t[1] = "null" THEN [throws |-> FALSE, shape |-> "null", items |-> <<>>]
  ELSE [throws |-> FALSE, shape |-> "object", items |-> <<>>]

FirstIndexOf(t, k) ==
  IF \E i \in 1..Len(t) : t[i] = k
  THEN CHOOSE i \in 1..Len(t) : t[i] = k /\ \A j \in 1..(i - 1) : t[j] # k
  ELSE 0

LastIndexOf(t, k) ==
  IF \E i \in 1..Len(t) : t[i] = k
  THEN CHOOSE i \in 1..Len(t) : t[i] = k /\ \A j \in (i + 1)..Len(t) : t[j] # k
  ELSE 0

\* variant: the match ends at the first closing bracket after the opening
\* one (a lazy quantifier)
JsonMatch_Lazy(t) ==
  LET open == FirstIndexOf(t, "[")
      close == IF open = 0 THEN 0
               ELSE LET rest == SubSeq(t, open + 1, Len(t))
                        c == FirstIndexOf(rest, "]")
                    IN IF c = 0 THEN 0 ELSE open + c
  IN IF close = 0 THEN [matched |-> FALSE, text |-> <<>>]
     ELSE [matched |-> TRUE, text |-> SubSeq(t, open, close)]

\* aiRaw.match(/\[[\s\S]*\]/): from the first "[" to the last "]" after it
JsonMatch(t) ==
  LET open == FirstIndexOf(t, "[")
      close == LastIndexOf(t, "]")
  IN IF open = 0 \/ close < open THEN [matched |-> FALSE, text |-> <<>>]
     ELSE [matched |-> TRUE, text |-> SubSeq(t, open, close)]

\* variant: the fallback built over the records named in the prompt
FallbackAnnotations_PromptOnly(fb) ==
  [i \in 1..(IF Len(fb) < PromptCap THEN Len(fb) ELSE PromptCap) |->
     [kind |-> "object", id |-> fb[i].id, theme |-> "AI Failed - Mock Theme",
      sentiment |-> "Neutral", urgency |-> "Medium"]]

\* the catch block's feedback.map(...)
FallbackAnnotations(fb) ==
  [i \in 1..Len(fb) |->
     [kind |-> "object", id |-> fb[i].id, theme |-> "AI Failed - Mock Theme",
      sentiment |-> "Neutral", urgency |-> "Medium"]]

\* aiRaw of the catch block: "AI processing failed: " and the message
FailedDebug(message) == [failed |-> TRUE, message |-> message, raw |-> <<>>]
RawDebug(raw) == [failed |-> FALSE, message |-> "", raw |-> raw]

\* the try/catch around the model call: analysis and debug of the answer
Analyze(fb, a) ==
  IF a.kind = "throws"
  THEN [shape |-> "array", items |-> FallbackAnnotations(fb),
        debug |-> FailedDebug(a.message)]
  ELSE LET aiRaw == AiRawOf(a)
           jsonMatch == JsonMatch(aiRaw)
           parsed == IF jsonMatch.matched THEN JsonParse(jsonMatch.text)
                     ELSE JsonParse(aiRaw)
       IN IF Len(aiRaw) = 0
          THEN [shape |-> "array", items |-> <<>>, debug |-> RawDebug(aiRaw)]
          ELSE IF parsed.throws
          THEN [shape |-> "array", items |-> FallbackAnnotations(fb),
                debug |-> FailedDebug("SyntaxError")]
          ELSE [shape |-> parsed.shape, items |-> parsed.items,
                debug |-> RawDebug(aiRaw)]

\* variant: a failed query taken as a query without rows
FetchFeedback_Swallow(d) ==
  [failed |-> FALSE, feedback |-> IF d.ok /\ d.defined THEN d.results ELSE <<>>]

\* the try/catch around the D1 query: feedback = results ?? []
FetchFeedback(d) ==
  [failed |-> ~d.ok, feedback |-> IF d.ok /\ d.defined THEN d.results ELSE <<>>]

NoResponse ==
  [status |-> 0, contentType |-> "none", error |-> FALSE, shape |-> "none",
   items |-> <<>>, debug |-> RawDebug(<<>>)]

\* new Response(JSON.stringify({ error, details }), { status: 500 })
ErrorResponse(contentType) ==
  [status |-> 500, contentType |-> contentType, error |-> TRUE,
   shape |-> "none", items |-> <<>>, debug |-> RawDebug(<<>>)]

handleDashboard ==
  /\ request = "/"
  /\ response = NoResponse
  /\ LET fetched == FetchFeedback(d1)
     IN IF fetched.failed
        THEN /\ response' = ErrorResponse("text/plain")
             /\ UNCHANGED feedback
        ELSE /\ feedback' = fetched.feedback
             /\ response' = [NoResponse EXCEPT !.status = 200,
                                               !.contentType = "text/html"]
  /\ UNCHANGED <<request, d1, ai, prompt>>
  /\ UNCHANGED pageVars

handleAnalyze ==
  /\ request = "/api/analyze"
  /\ response = NoResponse
  /\ LET fetched == FetchFeedback(d1)
     IN IF fetched.failed
        THEN /\ response' = ErrorResponse("application/json")
             /\ UNCHANGED <<feedback, prompt>>
        ELSE LET result == Analyze(fetched.feedback, ai)
             IN /\ feedback' = fetched.feedback
                /\ prompt' = SubSeq(fetched.feedback, 1,
                                    IF Len(fetched.feedback) < PromptCap
                                    THEN Len(fetched.feedback) ELSE PromptCap)
                /\ response' = [status |-> 200, contentType |-> "application/json",
                                error |-> FALSE, shape |-> result.shape,
                                items |-> result.items, debug |-> result.debug]
  /\ UNCHANGED <<request, d1, ai>>
  /\ UNCHANGED pageVars

\* no request is being served
ServerIdle ==
  /\ request = "none"
  /\ d1 = NoD1
  /\ ai = NoAi
  /\ prompt = <<>>
  /\ response = NoResponse

(* --------------------------- specification ---------------------------- *)
\* the dropdowns as the page's HTML has them: label "Loading...", no class
LoadingLabels == [f \in Facets |-> [active |-> FALSE, label |-> "loading"]]

\* the page after its script has run: source menu built, first render done,
\* fetch('/api/analyze') in flight
Init ==
  /\ feedback \in Batches
  /\ aiSummary = <<>>
  /\ aiShape = "array"
  /\ activeFilters = NoFilters
  /\ menu = [f \in Facets |-> IF f = "source" THEN SourceKeys(feedback) ELSE <<>>]
  /\ menuCount = InitializedCounts(feedback, <<>>)
  /\ allButton = [f \in Facets |-> f = "source"]
  /\ dropdown = updateDropdownLabels(LoadingLabels, feedback, <<>>, "array",
                                      NoFilters)
  /\ filtered = feedback
  /\ feedbackCount = <<Len(feedback), Len(feedback)>>
  /\ cards = [i \in 1..Len(feedback) |-> Card(<<>>, feedback[i])]
  /\ emptyState = EmptyStateOf(feedback, NoFilters)
  /\ aiLoadingHidden = FALSE
  /\ fetchState = "pending"
  /\ viewError = FALSE
  /\ lastEvent = "load"
  /\ ServerIdle

Next ==
  \/ \E f \in Facets : \E v \in SetOf(menu[f]) : Toggle(f, v)
  \/ \E f \in Facets : SelectAll(f)
  \/ ClearAll
  \/ \E anns \in AnnotationLists : AnalysisArrives(anns)
  \/ \E shape \in MalformedShapes : AnalysisMalformed(shape)
  \/ AnalysisFails

Spec == Init /\ [][Next]_vars

(* ---------------- render as a function of arbitrary inputs ------------- *)
\* every duplicate-free selection list over a facet's two values
SelectionsOver(values) ==
  {<<>>} \cup { <<v>> : v \in values }
         \cup { <<v, w>> : <<v, w>> \in { p \in values \X values : p[1] # p[2] } }

FacetValues(f) ==
  IF f = "source" THEN Sources
  ELSE IF f = "theme" THEN { l[1] : l \in Labels }
  ELSE IF f = "sentiment" THEN { l[2] : l \in Labels }
  ELSE { l[3] : l \in Labels }

SelectionStates ==
  { [source |-> s, theme |-> t, sentiment |-> n, urgency |-> u] :
      s \in SelectionsOver(FacetValues("source")),
      t \in SelectionsOver(FacetValues("theme")),
      n \in SelectionsOver(FacetValues("sentiment")),
      u \in SelectionsOver(FacetValues("urgency")) }

\* render() called on a batch, an annotation list and a selection state
\* taken independently of each other
InitApply ==
  /\ feedback \in Batches
  /\ aiSummary \in AnnotationLists
  /\ aiShape = "array"
  /\ activeFilters \in SelectionStates
  /\ menu = InitializedMenus(feedback, aiSummary)
  /\ menuCount = InitializedCounts(feedback, aiSummary)
  /\ allButton = [f \in Facets |-> TRUE]
  /\ dropdown = LoadingLabels
  /\ filtered = <<>>
  /\ feedbackCount = <<0, 0>>
  /\ cards = <<>>
  /\ emptyState = "none"
  /\ aiLoadingHidden = TRUE
  /\ fetchState = "resolved"
  /\ viewError = FALSE
  /\ lastEvent = "input"
  /\ ServerIdle

RenderCall ==
  /\ lastEvent = "input"
  /\ render(aiSummary, aiShape, activeFilters)
  /\ lastEvent' = "render"
  /\ UNCHANGED serverVars
  /\ UNCHANGED <<feedback, aiSummary, aiShape, activeFilters, menu, menuCount,
                 allButton,
                 dropdown, aiLoadingHidden, fetchState>>

NextApply == RenderCall

SpecApply == InitApply /\ [][NextApply]_vars

(* ----------------------- one request to the Worker --------------------- *)
\* a request has arrived; the D1 query and the model call will do what d1
\* and ai say; no page is involved
InitServer ==
  /\ request \in {"/", "/api/analyze"}
  /\ d1 \in D1Outcomes
  /\ ai \in (IF request = "/api/analyze" /\ d1.ok THEN AiOutcomes ELSE {NoAi})
  /\ prompt = <<>>
  /\ response = NoResponse
  /\ feedback = <<>>
  /\ aiSummary = <<>>
  /\ aiShape = "array"
  /\ activeFilters = NoFilters
  /\ menu = [f \in Facets |-> <<>>]
  /\ menuCount = [f \in Facets |-> <<>>]
  /\ allButton = [f \in Facets |-> FALSE]
  /\ dropdown = LoadingLabels
  /\ filtered = <<>>
  /\ feedbackCount = <<0, 0>>
  /\ cards = <<>>
  /\ emptyState = "none"
  /\ aiLoadingHidden = FALSE
  /\ fetchState = "pending"
  /\ viewError = FALSE
  /\ lastEvent = "request"

NextServer ==
  \/ handleDashboard
  \/ handleAnalyze

SpecServer == InitServer /\ [][NextServer]_vars

(* ------------------------------ claims -------------------------------- *)
\* the view holds a list of annotations and has rendered it
Rendered == aiShape = "array" /\ lastEvent # "input"
Annotated == Rendered /\ Len(aiSummary) > 0

Matched(id) == \E j \in 1..Len(aiSummary) : aiSummary[j].id = id

\* the annotation a record is joined with: the one at the least position
\* among those carrying its id
FirstMatch(id) ==
  aiSummary[CHOOSE j \in 1..Len(aiSummary) :
              aiSummary[j].id = id /\ \A k \in 1..(j - 1) : aiSummary[k].id # id]

\* a record's value for a facet, given the annotation it is joined with
FacetValueOf(rec, ann, f) == IF f = "source" THEN rec.source ELSE ann[f]

Shown(rec) == \E i \in 1..Len(filtered) : filtered[i] = rec

PositionIn(seq, x) == CHOOSE i \in 1..Len(seq) : seq[i] = x

\* sub lists elements of full, each at most once, in the order of full
IsSubsequenceInOrder(sub, full) ==
  /\ \A i \in 1..Len(sub) : \E p \in 1..Len(full) : full[p] = sub[i]
  /\ \A i, j \in 1..Len(sub) :
       i < j => PositionIn(full, sub[i]) < PositionIn(full, sub[j])

\* C1: in the Annotated state, when every record has a matching annotation,
\* a record is in render's filtered list exactly when, for every facet with
\* a non-empty selection, the record's value for the facet is selected.
C1_AndAcrossOrWithin ==
  (Annotated /\ \A i \in 1..Len(feedback) : Matched(feedback[i].id))
  => \A i \in 1..Len(feedback) :
       Shown(feedback[i])
       <=> \A f \in Facets :
             Len(activeFilters[f]) > 0
             => FacetValueOf(feedback[i], FirstMatch(feedback[i].id), f)
                  \in SetOf(activeFilters[f])

C1_Witness ==
  /\ Annotated
  /\ Len(feedback) = 2
  /\ \A i \in 1..Len(feedback) : Matched(feedback[i].id)
  /\ Len(activeFilters.source) > 0
  /\ Len(activeFilters.theme) > 0
  /\ Len(activeFilters.urgency) > 0
  /\ Len(filtered) = 1

\* C2: in the Annotated state a record with no matching annotation is
\* filtered as if it carried the default annotation: it is in render's
\* filtered list exactly when its source and the default theme, sentiment
\* and urgency pass every non-empty selection.
C2_UnmatchedFilteredAsDefault ==
  Annotated
  => \A i \in 1..Len(feedback) :
       ~Matched(feedback[i].id)
       => (Shown(feedback[i])
           <=> \A f \in Facets :
                 Len(activeFilters[f]) > 0
                 => FacetValueOf(feedback[i],
                        [theme |-> "Unknown", sentiment |-> "Neutral",
                         urgency |-> "Medium"], f)
                      \in SetOf(activeFilters[f]))

\* C3: for every batch and every annotation list, with no filter selected
\* the rendered cards are the input records, one card per record, in
\* input order.
C3_OneCardPerRecord ==
  (Rendered /\ activeFilters = NoFilters)
  => /\ Len(cards) = Len(feedback)
     /\ \A i \in 1..Len(feedback) :
          cards[i].id = feedback[i].id /\ cards[i].source = feedback[i].source

C3_Witness ==
  /\ Rendered
  /\ activeFilters = NoFilters
  /\ Len(feedback) = 2
  /\ Len(aiSummary) = 2
  /\ aiSummary[1].id = aiSummary[2].id
  /\ Len(cards) = 2

\* C4: when several annotations share a record's id, the record's card
\* carries the theme, sentiment and urgency of the first of them in list
\* order.
C4_FirstDuplicateWins ==
  Rendered
  => \A i \in 1..Len(cards) :
       Matched(cards[i].id)
       => LET a == FirstMatch(cards[i].id)
          IN /\ cards[i].summary.theme = a.theme
             /\ cards[i].summary.sentiment = a.sentiment
             /\ cards[i].summary.urgency = a.urgency

C4_Witness ==
  /\ Rendered
  /\ Len(aiSummary) = 2
  /\ aiSummary[1].id = aiSummary[2].id
  /\ aiSummary[1].theme # aiSummary[2].theme
  /\ \E i \in 1..Len(cards) :
       cards[i].id = aiSummary[1].id /\ cards[i].summary.theme = aiSummary[1].theme

\* C5: the card of a record whose id matches no annotation carries theme
\* "Unknown", sentiment "Neutral" and urgency "Medium", and rendering a list
\* of annotations never raises an error.
C5_DefaultForUnmatched ==
  Rendered
  => /\ ~viewError
     /\ \A i \in 1..Len(cards) :
          ~Matched(cards[i].id)
          => /\ cards[i].summary.theme = "Unknown"
             /\ cards[i].summary.sentiment = "Neutral"
             /\ cards[i].summary.urgency = "Medium"

C5_Witness ==
  /\ Annotated
  /\ \E i \in 1..Len(cards) : ~Matched(cards[i].id) /\ ~cards[i].loading
  /\ \E i \in 1..Len(cards) : Matched(cards[i].id)

\* C6: while the annotation list is empty, render's filtered list is the
\* records whose source passes the source selection, whatever the theme,
\* sentiment and urgency selections are.
C6_AiFacetsSuppressedWhileEmpty ==
  (Rendered /\ Len(aiSummary) = 0)
  => /\ IsSubsequenceInOrder(filtered, feedback)
     /\ \A i \in 1..Len(feedback) :
          Shown(feedback[i])
          <=> (Len(activeFilters.source) > 0
               => feedback[i].source \in SetOf(activeFilters.source))

C6_Witness ==
  /\ lastEvent = "render"
  /\ Len(aiSummary) = 0
  /\ Len(activeFilters.theme) > 0
  /\ Len(activeFilters.sentiment) > 0
  /\ Len(activeFilters.urgency) > 0
  /\ Len(activeFilters.source) = 1
  /\ Len(feedback) = 2
  /\ Len(filtered) = 1

\* C7: when every facet's selection is empty, render's filtered list is the
\* record list itself: every record once, in the original order.
C7_NoSelectionShowsAll ==
  (Rendered /\ \A f \in Facets : Len(activeFilters[f]) = 0)
  => filtered = feedback

C7_Witness ==
  /\ Annotated
  /\ lastEvent = "click"
  /\ activeFilters = NoFilters
  /\ Len(feedback) = 2
  /\ Len(filtered) = 2

\* C8: when only the source facet has a non-empty selection S, render's
\* filtered list holds exactly the records whose source is in S, in their
\* original relative order.
C8_SourceOnly ==
  (/\ Rendered
   /\ Len(activeFilters.source) > 0
   /\ \A f \in AiFacets : Len(activeFilters[f]) = 0)
  => /\ IsSubsequenceInOrder(filtered, feedback)
     /\ \A i \in 1..Len(feedback) :
          Shown(feedback[i]) <=> feedback[i].source \in SetOf(activeFilters.source)

C8_Witness ==
  /\ Annotated
  /\ activeFilters.source = <<"Twitter">>
  /\ \A f \in AiFacets : Len(activeFilters[f]) = 0
  /\ Len(feedback) = 2
  /\ Len(filtered) = 1
  /\ filtered[1].source = "Twitter"

\* C9: a toggle of value v on facet f removes v from the facet's selection
\* if it was selected and adds it otherwise, leaving the other values as
\* they were; a second toggle of v then gives back the set of values the
\* selection held before the first.
C9_ToggleFlipsAndPairsCancel ==
  [][\A f \in Facets : \A v \in SetOf(menu[f]) :
       Toggle(f, v)
       => /\ (v \in SetOf(activeFilters'[f])) <=> (v \notin SetOf(activeFilters[f]))
          /\ SetOf(activeFilters'[f]) \ {v} = SetOf(activeFilters[f]) \ {v}
          /\ SetOf(ToggleSel(activeFilters'[f], v)) = SetOf(activeFilters[f])
          /\ Len(ToggleSel(activeFilters'[f], v)) = Len(activeFilters[f])]_vars

C9_Witness ==
  /\ lastEvent = "click"
  /\ Annotated
  /\ activeFilters.theme = <<"Billing">>
  /\ Len(menu.theme) = 2

\* C10: the "All" button of a facet empties the facet's selection when
\* every value of allValues is selected, and otherwise sets the selection
\* to exactly allValues, also from a partial selection.
C10_ToggleAll ==
  [][\A f \in Facets :
       SelectAll(f)
       => IF SetOf(menu[f]) \subseteq SetOf(activeFilters[f])
          THEN activeFilters'[f] = <<>>
          ELSE activeFilters'[f] = menu[f]]_vars

C10_Witness ==
  /\ lastEvent = "click"
  /\ Annotated
  /\ Len(menu.sentiment) = 2
  /\ activeFilters.sentiment = menu.sentiment
  /\ Len(activeFilters.source) = 0
  /\ activeFilters.theme = <<"Billing">>

\* C11: the "All" button pressed on a facet whose selection is empty
\* selects every value of the facet, and pressed a second time empties the
\* selection again.
C11_SelectAllTwiceFromEmpty ==
  [][\A f \in Facets :
       (SelectAll(f) /\ activeFilters[f] = <<>>)
       => /\ activeFilters'[f] = menu[f]
          /\ SelectAllSel(activeFilters'[f], menu[f]) = <<>>]_vars

C11_Witness ==
  /\ lastEvent = "click"
  /\ fetchState = "pending"
  /\ Len(menu.source) = 2
  /\ activeFilters.source = menu.source

\* C12: the clear button empties the selection of every facet from every
\* reachable state, before and after the analysis has arrived, and the
\* render that follows produces the whole record list.
C12_ClearAllShowsEverything ==
  [][ClearAll => /\ activeFilters' = NoFilters
                 /\ filtered' = feedback]_vars

\* the tri-state summary a dropdown shows: "none" without the class
\* "active", otherwise "all" or "partial" by its label
Summarize(f) ==
  IF ~dropdown[f].active THEN "none"
  ELSE IF dropdown[f].label = "all" THEN "all" ELSE "partial"

\* the distinct values a facet has
DistinctValues(f) ==
  IF f = "source" THEN SetOf(Project(feedback, "source"))
  ELSE SetOf(Project(aiSummary, f))

\* C13 as stated: for every facet and every reachable selection the summary
\* is "none" exactly when the selection is empty, "all" exactly when the
\* selection's size equals the number of distinct values of the facet, and
\* "partial" otherwise.
C13_TriStateAsStated ==
  \A f \in Facets :
    LET size == Cardinality(SetOf(activeFilters[f]))
        n == Cardinality(DistinctValues(f))
    IN /\ (Summarize(f) = "none") <=> (size = 0)
       /\ (Summarize(f) = "all") <=> (size = n)
       /\ (Summarize(f) = "partial") <=> (size # 0 /\ size # n)

\* C13, amended: the summary is "none" exactly when the selection is empty,
\* "all" exactly when the selection is non-empty and its size equals the
\* number of distinct values of the facet, and "partial" otherwise.
C13_TriState ==
  \A f \in Facets :
    LET size == Cardinality(SetOf(activeFilters[f]))
        n == Cardinality(DistinctValues(f))
    IN /\ (Summarize(f) = "none") <=> (size = 0)
       /\ (Summarize(f) = "all") <=> (size # 0 /\ size = n)
       /\ (Summarize(f) = "partial") <=> (size # 0 /\ size # n)

C13_Witness ==
  /\ lastEvent = "click"
  /\ Len(aiSummary) = 2
  /\ Summarize("source") = "partial"
  /\ Summarize("theme") = "all"
  /\ Len(activeFilters.theme) = 2
  /\ Summarize("urgency") = "none"

\* C14: a click that adds a value to a facet whose selection was empty
\* leaves render's filtered list as it was or shrinks it; a click that adds
\* a value to a facet whose selection was non-empty leaves it as it was or
\* grows it.
C14_Monotonic ==
  [][\A f \in Facets : \A v \in SetOf(menu[f]) :
       (Toggle(f, v) /\ v \notin SetOf(activeFilters[f]))
       => IF Len(activeFilters[f]) = 0
          THEN SetOf(filtered') \subseteq SetOf(filtered)
          ELSE SetOf(filtered) \subseteq SetOf(filtered')]_vars

C14_Witness ==
  /\ lastEvent = "click"
  /\ Annotated
  /\ Len(activeFilters.theme) = 2
  /\ Len(activeFilters.source) = 1
  /\ Len(feedback) = 2
  /\ Len(filtered) = 1

\* the analyze handler has answered after a successful D1 query
Analyzed == request = "/api/analyze" /\ response.status = 200

\* no stretch of the text is a JSON array
NoParseableArray(t) ==
  \A i, j \in 1..Len(t) :
    (i <= j /\ t[i] = "[") => JsonParse(SubSeq(t, i, j)).throws

\* C15: when the model's text holds no parseable JSON array, the analyze
\* answer carries an empty annotation list and a diagnostic equal to the
\* raw text.
C15_UnparseableGivesEmptyAndRaw ==
  (Analyzed /\ ai.kind # "throws" /\ NoParseableArray(AiRawOf(ai)))
  => /\ response.shape = "array"
     /\ response.items = <<>>
     /\ response.debug = RawDebug(AiRawOf(ai))

\* C16: when the model's text is a JSON array with commentary around it,
\* the analyze answer carries exactly the elements of the stretch from the
\* first "[" to the last "]", with the fields given there, and the raw text
\* as diagnostic.
C16_ExtractsBracketedArray ==
  (Analyzed /\ ai.kind # "throws")
  => LET t == AiRawOf(ai)
     IN \A i, j \in 1..Len(t) :
          (/\ i < j
           /\ t[i] = "[" /\ \A k \in 1..(i - 1) : t[k] # "["
           /\ t[j] = "]" /\ \A k \in (j + 1)..Len(t) : t[k] # "]")
          => /\ ~JsonParse(SubSeq(t, i, j)).throws
                => /\ response.shape = "array"
                   /\ response.items = JsonParse(SubSeq(t, i, j)).items
                   /\ response.debug = RawDebug(t)
             /\ (/\ \A k \in 1..(i - 1) : t[k] = "w"
                 /\ \A k \in (j + 1)..Len(t) : t[k] = "w"
                 /\ \A k \in (i + 1)..(j - 1) : t[k] \in {"a1", "aAngry"})
                => /\ response.shape = "array"
                   /\ response.items = [k \in 1..(j - i - 1) |-> ItemOf(t[i + k])]

C16_Witness ==
  /\ Analyzed
  /\ ai.kind = "string"
  /\ ai.text = <<"w", "[", "a1", "]", "w">>
  /\ Len(response.items) = 1
  /\ response.items[1].id = 1
  /\ response.items[1].theme = "Billing"

Sentiments == {"Positive", "Neutral", "Negative"}
Urgencies == {"High", "Medium", "Low"}

\* C17: every annotation of an analyze answer has a sentiment among
\* Positive, Neutral, Negative and an urgency among High, Medium, Low; an
\* annotation the model gave other values is kept, with sentiment Neutral
\* and urgency Medium in their place.
C17_EnumsCoerced ==
  (Analyzed /\ response.shape = "array")
  => /\ \A i \in 1..Len(response.items) :
          /\ response.items[i].sentiment \in Sentiments
          /\ response.items[i].urgency \in Urgencies
     /\ (ai.kind = "string" /\ ai.text = <<"[", "aAngry", "]">>)
        => /\ Len(response.items) = 1
           /\ response.items[1].id = ItemOf("aAngry").id
           /\ response.items[1].sentiment = "Neutral"
           /\ response.items[1].urgency = "Medium"

\* C18: when the model call throws, the analyze answer is still a success
\* and carries one fallback annotation per fetched record, also for the
\* records beyond those named in the prompt, in the order of the records,
\* each with the record's id, sentiment Neutral and urgency Medium, and a
\* diagnostic that holds the error's message.
C18_FallbackOnModelFailure ==
  (Analyzed /\ ai.kind = "throws")
  => /\ ~response.error
     /\ response.shape = "array"
     /\ Len(response.items) = Len(feedback)
     /\ \A i \in 1..Len(feedback) :
          /\ response.items[i].id = feedback[i].id
          /\ response.items[i].sentiment = "Neutral"
          /\ response.items[i].urgency = "Medium"
     /\ response.debug.failed
     /\ response.debug.message = ai.message

C18_Witness ==
  /\ Analyzed
  /\ ai.kind = "throws"
  /\ Len(feedback) = PromptCap + 1
  /\ Len(prompt) = PromptCap
  /\ Len(response.items) = PromptCap + 1
  /\ response.debug.message = "timeout"

\* C19: a failure of the record-store query gives an explicit error result,
\* with no view and no annotations, which differs from the result of a
\* query that returned no record; so for the dashboard and for analyze.
C19_StoreFailureIsExplicit ==
  response # NoResponse
  => /\ ~d1.ok => /\ response.status = 500
                  /\ response.error
                  /\ response.contentType # "text/html"
                  /\ response.shape = "none"
     /\ d1.ok => /\ response.status = 200
                 /\ ~response.error
                 /\ request = "/" => response.contentType = "text/html"
                 /\ request = "/api/analyze" => response.shape # "none"

C19_Witness ==
  /\ request = "/api/analyze"
  /\ ~d1.ok
  /\ response.status = 500
  /\ response.error

\* C20: whatever the analyze endpoint answered after a successful D1
\* query, and whatever clicks follow, no render of the page raises an
\* error: every render completes with one card per record that passes the
\* filters.
C20_ViewNeverErrors ==
  aiShape # "undefined"
  => /\ ~viewError
     /\ lastEvent = "click" => Len(cards) = Len(filtered)

\* C21: the page's annotation list is assigned at most once, by the
\* completion of the fetch, and once it is non-empty no click and no fetch
\* outcome changes it: it never becomes empty again.
C21_AnnotatedForGood ==
  [][/\ (aiSummary' # aiSummary \/ aiShape' # aiShape)
        => (fetchState = "pending" /\ fetchState' # "pending")
     /\ fetchState # "pending" => fetchState' = fetchState
     /\ Len(aiSummary) > 0 => aiSummary' = aiSummary]_vars

C21_Witness ==
  /\ fetchState = "resolved"
  /\ Len(aiSummary) = 2
  /\ lastEvent = "click"
  /\ activeFilters.sentiment = <<"Negative">>

EnrichedValue(rec, f) ==
  IF f = "source" THEN rec.source ELSE Summary(aiSummary, rec.id)[f]

\* the number of records whose enriched value for facet f is v
EnrichedCount(f, v) ==
  Cardinality({ i \in 1..Len(feedback) : EnrichedValue(feedback[i], f) = v })

RECURSIVE SumSeq(_)
SumSeq(seq) == IF Len(seq) = 0 THEN 0 ELSE Head(seq) + SumSeq(Tail(seq))

UserEvent ==
  \/ \E f \in Facets : \E v \in SetOf(menu[f]) : Toggle(f, v)
  \/ \E f \in Facets : SelectAll(f)
  \/ ClearAll

\* C23: a toggle, a select-all or a clear leaves every facet's list of
\* values and every count as they were, and each count is the number of
\* all records having the value, not of the records left by the filters.
C23_CountsIndependentOfSelection ==
  [][UserEvent
     => /\ menu' = menu
        /\ menuCount' = menuCount
        /\ \A f \in Facets : \A i \in 1..Len(menu[f]) :
             menuCount'[f][i] = EnrichedCount(f, menu[f][i])]_vars

\* C24: for each facet the count shown for a value is the number of
\* records having that value once joined with their first matching or
\* default annotation, so that a facet's counts sum to the number of
\* records, whatever unmatched, foreign or duplicate annotations the list
\* holds.
C24_CountsOfEnrichedRecords ==
  \A f \in Facets :
    (f = "source" \/ fetchState = "resolved")
    => /\ \A i \in 1..Len(menu[f]) :
            menuCount[f][i] = EnrichedCount(f, menu[f][i])
       /\ SumSeq(menuCount[f]) = Len(feedback)

\* C25: the completion of the annotation fetch, successful or not, leaves
\* every facet's selection as it was, and the render that follows a
\* successful completion still applies a source selection made before.
C25_FetchKeepsSelection ==
  [][fetchState' # fetchState
     => /\ activeFilters' = activeFilters
        /\ (fetchState' = "resolved" /\ Len(activeFilters.source) > 0)
           => \A i \in 1..Len(filtered') :
                filtered'[i].source \in SetOf(activeFilters.source)]_vars

C25_Witness ==
  /\ lastEvent = "analysis"
  /\ Len(aiSummary) = 2
  /\ activeFilters.source = <<"Email">>
  /\ Len(feedback) = 2
  /\ Len(filtered) = 1

\* C26: in every reachable state every facet's selection holds no value
\* twice and holds only values the facet offers, so its length is the
\* number of distinct selected values.
C26_SelectionsWellFormed ==
  \A f \in Facets :
    /\ \A i, j \in 1..Len(activeFilters[f]) :
         activeFilters[f][i] = activeFilters[f][j] => i = j
    /\ SetOf(activeFilters[f]) \subseteq SetOf(menu[f])
    /\ Len(activeFilters[f]) = Cardinality(SetOf(activeFilters[f]))

C26_Witness ==
  /\ lastEvent = "click"
  /\ Len(aiSummary) = 2
  /\ Len(activeFilters.theme) = 2
  /\ Len(activeFilters.source) = 2
  /\ activeFilters.urgency = <<"High">>

\* C27: in every reachable state in which the annotation list is empty
\* (before the answer, after a failed fetch, after an empty answer) the
\* theme, sentiment and urgency selections are empty.
C27_NoAiSelectionWhileEmpty ==
  Len(aiSummary) = 0
  => \A f \in AiFacets : activeFilters[f] = <<>>

C27_Witness ==
  /\ fetchState = "resolved"
  /\ Len(aiSummary) = 0
  /\ allButton.theme
  /\ lastEvent = "click"
  /\ Len(activeFilters.source) = 1

\* C28: the step at which the fetch settles, with annotations, with an
\* unusable body or with a failure, hides the loading indicator, and once
\* hidden it stays hidden under every later event.
C28_LoadingHiddenForGood ==
  [][/\ fetchState' # "pending" => aiLoadingHidden'
     /\ aiLoadingHidden => aiLoadingHidden']_vars

C28_Witness ==
  /\ fetchState = "rejected"
  /\ aiShape = "object"
  /\ aiLoadingHidden
  /\ lastEvent = "click"

\* C29: in every reachable state render's filtered list is a subsequence
\* of the record list, each record at most once and in the original order,
\* and the count line "Showing N of M" has N <= M.
C29_FilteredIsSubsequence ==
  /\ IsSubsequenceInOrder(filtered, feedback)
  /\ \A i, j \in 1..Len(filtered) : filtered[i] = filtered[j] => i = j
  /\ feedbackCount[1] <= feedbackCount[2]
  /\ aiShape = "array" => feedbackCount = <<Len(filtered), Len(feedback)>>

C29_Witness ==
  /\ lastEvent = "click"
  /\ Len(aiSummary) = 2
  /\ activeFilters.theme = <<"Billing", "Unknown">>
  /\ Len(feedback) = 2
  /\ feedbackCount = <<2, 2>>

\* C30: a click on a value or on an "All" button changes the selection of
\* its own facet only: the selections of the other three facets, the
\* record list and the annotation list stay as they were.
C30_ClickFrame ==
  [][\A f \in Facets :
       ((\E v \in SetOf(menu[f]) : Toggle(f, v)) \/ SelectAll(f))
       => /\ \A g \in Facets \ {f} : activeFilters'[g] = activeFilters[g]
          /\ feedback' = feedback
          /\ aiSummary' = aiSummary
          /\ aiShape' = aiShape]_vars

C30_Witness ==
  /\ lastEvent = "click"
  /\ Len(aiSummary) = 2
  /\ activeFilters.source = <<"Twitter">>
  /\ activeFilters.theme = <<"Billing">>
  /\ activeFilters.sentiment = <<"Negative", "Neutral">>
  /\ Len(activeFilters.urgency) = 0

====
